---- MODULE Spec2Model ----
(***************************************************************************)
(* certbot/hooks.py: running user-configured shell commands ("hooks")      *)
(* before issuance, after issuance and after a renewal.                    *)
(*                                                                         *)
(* A Python str is a tuple of one-character strings, <<"e","c","h","o">>;  *)
(* None and "" are both the empty tuple (the module only tests hooks for   *)
(* truthiness).  The subprocess, the file system and the logger are the    *)
(* environment: the file system is `world`, the outcome of every           *)
(* subprocess is an input of the operation that starts it, and `calls`     *)
(* and `log` record what the latest operation handed to Popen and to the   *)
(* logger.                                                                 *)
(***************************************************************************)
EXTENDS Naturals, Sequences, FiniteSets, Bags, TLC

(***************************************************************************)
(* Bounds of the model.                                                    *)
(***************************************************************************)
\* Number of operations in one process lifetime: of any kind, and when only
\* pre-hook, only post-hook or only deploy-hook operations are called.
MaxOps == 2
MaxPreOps == 4
MaxPostOps == 4
MaxDeployOps == 3
\* Number of commands handed to _run_eventually in one process lifetime.
MaxGiven == 5
\* Number of renew_hook passes of one configuration.
MaxRenewOps == 3
\* Number of threads that call into the module, and of the calls they make.
NThreads == 2
MaxThreadOps == 4
\* Number of operations when only list_hooks and the operations that list a
\* hook directory are called.
MaxDirOps == 2

(***************************************************************************)
(* Strings.                                                                *)
(***************************************************************************)
\* The characters used, in code point order.
Alphabet ==
  << " ", "-", ".", "/", "0", "1", "2", "3", "4", "5", "6", "7", "8", "9", ":",
     "a", "b", "c", "d", "e", "f", "g", "h", "i", "j", "k", "l", "m",
     "n", "o", "p", "q", "r", "s", "t", "u", "v", "w", "x", "y", "z" >>

\* ord(): the rank of a character; only the order of the ranks is used.
Ord(ch) == CHOOSE i \in 1..Len(Alphabet) : Alphabet[i] = ch

Min(a, b) == IF a <= b THEN a ELSE b

\* str.__lt__: lexicographic order by code point.
StrLess(s, t) ==
  \E i \in 1..(Min(Len(s), Len(t)) + 1) :
     /\ \A j \in 1..(i - 1) : s[j] = t[j]
     /\ \/ i > Len(s) /\ i <= Len(t)
        \/ i <= Len(s) /\ i <= Len(t) /\ Ord(s[i]) < Ord(t[i])

\* str.isspace() of one character.
IsSpace(ch) == ch = " "

\* Index of the first character of s at or after i that is (sp = TRUE) or is
\* not (sp = FALSE) whitespace; Len(s) + 1 when there is none.
RECURSIVE Scan(_, _, _)
Scan(s, i, sp) ==
  IF i > Len(s) THEN Len(s) + 1
  ELSE IF IsSpace(s[i]) = sp THEN i
  ELSE Scan(s, i + 1, sp)

\* shell_cmd.split(None, 1): at most two fields, the first one cut at the
\* first run of whitespace, the rest with its leading whitespace removed.
split(shell_cmd) ==
  LET b == Scan(shell_cmd, 1, FALSE)
      e == Scan(shell_cmd, b, TRUE)
      r == Scan(shell_cmd, e, FALSE)
  IN  IF b > Len(shell_cmd) THEN << >>
      ELSE IF r > Len(shell_cmd) THEN << SubSeq(shell_cmd, b, e - 1) >>
      ELSE << SubSeq(shell_cmd, b, e - 1), SubSeq(shell_cmd, r, Len(shell_cmd)) >>

\* Index of the last "/" of p, 0 when there is none.
RECURSIVE LastSlash(_, _)
LastSlash(p, i) ==
  IF i = 0 THEN 0 ELSE IF p[i] = "/" THEN i ELSE LastSlash(p, i - 1)

\* os.path.basename
basename(p) == SubSeq(p, LastSlash(p, Len(p)) + 1, Len(p))

\* os.path.join of two components
path_join(a, b) ==
  IF Len(b) > 0 /\ b[1] = "/" THEN b
  ELSE IF a = << >> \/ a[Len(a)] = "/" THEN a \o b
  ELSE a \o << "/" >> \o b

\* sep.join(parts)
RECURSIVE str_join(_, _)
str_join(sep, parts) ==
  IF parts = << >> THEN << >>
  ELSE IF Len(parts) = 1 THEN parts[1]
  ELSE parts[1] \o sep \o str_join(sep, Tail(parts))

\* "%d" % n
RECURSIVE format_d(_)
format_d(n) ==
  IF n < 10 THEN << Alphabet[Ord("0") + n] >>
  ELSE format_d(n \div 10) \o << Alphabet[Ord("0") + (n % 10)] >>

\* sorted(): insertion of each element of xs, in turn, into a sorted list,
\* after the elements that are not greater (a stable sort).
RECURSIVE insort(_, _)
insort(sortedList, x) ==
  IF sortedList = << >> THEN << x >>
  ELSE IF StrLess(x, Head(sortedList)) THEN << x >> \o sortedList
  ELSE << Head(sortedList) >> \o insort(Tail(sortedList), x)

RECURSIVE sorted(_)
sorted(xs) ==
  IF xs = << >> THEN << >>
  ELSE insort(sorted(SubSeq(xs, 1, Len(xs) - 1)), xs[Len(xs)])

Range(f) == { f[i] : i \in DOMAIN f }

\* sub in s
Contains(s, sub) ==
  \E i \in 1..(Len(s) - Len(sub) + 1) : SubSeq(s, i, i + Len(sub) - 1) = sub

\* s.split(sep) for a one-character separator
RECURSIVE split_sep(_, _)
split_sep(s, sep) ==
  IF \A i \in 1..Len(s) : s[i] # sep THEN << s >>
  ELSE LET i == CHOOSE k \in 1..Len(s) :
                   s[k] = sep /\ \A j \in 1..(k - 1) : s[j] # sep
       IN  << SubSeq(s, 1, i - 1) >> \o split_sep(SubSeq(s, i + 1, Len(s)), sep)

(***************************************************************************)
(* The environment: directories, files, commands, subprocess outcomes.     *)
(***************************************************************************)
\* config.renewal_pre_hooks_dir, renewal_post_hooks_dir, renewal_deploy_hooks_dir
PreHooksDir    == << "/", "h", "/", "p", "r", "e" >>
PostHooksDir   == << "/", "h", "/", "p", "o", "s", "t" >>
DeployHooksDir == << "/", "h", "/", "d", "e", "p", "l", "o", "y" >>

\* Two more directories, looked at by list_hooks only.
EmptyDir       == << "/", "h", "/", "e" >>
MixedDir       == << "/", "h", "/", "m" >>

A_sh == << "a", ".", "s", "h" >>
B_sh == << "b", ".", "s", "h" >>
C_txt == << "c" >>
A_bare == << "a" >>
A_dash == << "a", "-", "b" >>
B_bare == << "b" >>

Echo      == << "e", "c", "h", "o", " ", "h", "i" >>
Nginx     == << "n", "g", "i", "n", "x", " ", "-", "s" >>
Gone      == << "g", "o", "n", "e" >>
Blank     == << " " >>
\* The path of /h/post/b.sh relative to the working directory, /h.
RelB_sh   == << "p", "o", "s", "t", "/", "b", ".", "s", "h" >>
BinEcho   == << "/", "b", "i", "n", "/", "e", "c", "h", "o" >>
SbinNginx == << "/", "u", "s", "r", "/", "s", "b", "i", "n", "/", "n", "g", "i", "n", "x" >>
BinPath   == << "/", "b", "i", "n" >>
SbinPath  == << "/", "b", "i", "n", ":", "/", "u", "s", "r", "/", "s", "b", "i", "n" >>

\* The file systems a run may be in.  listdir gives the entries of each
\* existing directory in the order the operating system returns them, exe the
\* paths that are executable regular files, present the paths that exist; a
\* relative path is a path in the working directory.
FullWorld ==
  [ listdir |-> ( PreHooksDir    :> << B_sh, C_txt, A_sh >> @@
                  PostHooksDir   :> << B_sh, A_sh >> @@
                  DeployHooksDir :> << C_txt, B_sh, A_sh >> @@
                  EmptyDir       :> << >> @@
                  MixedDir       :> << B_bare, A_sh, B_sh, A_dash, A_bare >> ),
    exe     |-> { path_join(PreHooksDir, A_sh), path_join(PreHooksDir, B_sh),
                  path_join(MixedDir, B_bare), path_join(MixedDir, A_sh),
                  path_join(MixedDir, A_dash),
                  path_join(PostHooksDir, A_sh), path_join(PostHooksDir, B_sh),
                  path_join(DeployHooksDir, A_sh), path_join(DeployHooksDir, B_sh),
                  BinEcho, SbinNginx, A_sh, RelB_sh },
    present |-> { PreHooksDir, PostHooksDir, DeployHooksDir, EmptyDir, MixedDir,
                  path_join(MixedDir, B_bare), path_join(MixedDir, A_sh),
                  path_join(MixedDir, B_sh), path_join(MixedDir, A_dash),
                  path_join(MixedDir, A_bare),
                  path_join(PreHooksDir, A_sh), path_join(PreHooksDir, B_sh),
                  path_join(PreHooksDir, C_txt),
                  path_join(PostHooksDir, A_sh), path_join(PostHooksDir, B_sh),
                  path_join(DeployHooksDir, A_sh), path_join(DeployHooksDir, B_sh),
                  path_join(DeployHooksDir, C_txt),
                  BinEcho, SbinNginx, A_sh, RelB_sh },
    PATH    |-> BinPath ]

\* No hook directory exists, and PATH already names /usr/sbin.
BareWorld ==
  [ listdir |-> << >>,
    exe     |-> { BinEcho },
    present |-> { BinEcho },
    PATH    |-> SbinPath ]

Worlds == [ full |-> FullWorld, bare |-> BareWorld ]

\* What a subprocess can do: its exit status and what it writes.
Outcome(rc, err, out) == [ returncode |-> rc, err |-> err, out |-> out ]
ErrText == << "e", "r", "r" >>
OutText == << "o", "k" >>
Succeeds == Outcome(0, << >>, OutText)
Outcomes ==
  { Succeeds, Outcome(1, << >>, << >>), Outcome(0, ErrText, << >>),
    Outcome(1, ErrText, OutText) }

\* The outcomes of the n subprocesses one operation starts, in order: at
\* most one of them fails, in any of the three ways, or they all end alike.
OutcomeSeqs(n) ==
  { s \in [ 1..n -> Outcomes ] :
      \/ Cardinality({ i \in 1..n : s[i] # Succeeds }) <= 1
      \/ \A i, j \in 1..n : s[i] = s[j] }

\* Exceptions.
Exc(type, text, args) == [ type |-> type, text |-> text, args |-> args ]
NoError == Exc("", "", << >>)

(***************************************************************************)
(* State.                                                                  *)
(***************************************************************************)
VARIABLES
  already,     \* pre_hook.already: the pre-hook commands that were run
  eventually,  \* post_hook.eventually: the post-hooks saved for the end
  environ,     \* os.environ: PATH, RENEWED_DOMAINS, RENEWED_LINEAGE
  world,       \* which file system the process runs in
  calls,       \* the Popen calls of the latest operation: command, os.environ
  log,         \* the logger calls of the latest operation
  last,        \* the latest operation: its name, arguments and result
  given,       \* every argument of _run_eventually so far, in call order
  nrun,        \* the commands run so far, a bag for each kind of hook
  nops,        \* the number of operations so far
  limit,       \* the number of operations of the process lifetime
  threads      \* the calls in progress in concurrent threads, none otherwise

vars ==
  << already, eventually, environ, world, calls, log, last, given, nrun, nops, limit,
     threads >>

\* The file system.
fs == Worlds[world]

\* A configuration: the fields of config that hooks.py reads.
Config(verb, directory_hooks, dry_run, pre, post, deploy, renew) ==
  [ verb |-> verb, directory_hooks |-> directory_hooks, dry_run |-> dry_run,
    pre_hook |-> pre, post_hook |-> post, deploy_hook |-> deploy,
    renew_hook |-> renew,
    renewal_pre_hooks_dir |-> PreHooksDir,
    renewal_post_hooks_dir |-> PostHooksDir,
    renewal_deploy_hooks_dir |-> DeployHooksDir ]

NoConfig == Config("", FALSE, FALSE, << >>, << >>, << >>, << >>)

\* The state an operation works on: the module's state, what it has handed
\* to Popen and to the logger, its local executed_dir_hooks, the hooks it has
\* validated, the value it returns, the exception it has raised and the
\* outcomes of the subprocesses it has yet to start.
Start(outs) ==
  [ already |-> already, eventually |-> eventually, environ |-> environ,
    calls |-> << >>, log |-> << >>, given |-> given,
    executed_dir_hooks |-> {}, validated |-> << >>, returned |-> << >>,
    raised |-> NoError, outs |-> outs ]

Raise(st, exc) == IF st.raised = NoError THEN [st EXCEPT !.raised = exc] ELSE st

\* logger.info / logger.warning / logger.error
Logged(st, level, text, args) ==
  [st EXCEPT !.log = Append(@, [ level |-> level, text |-> text, args |-> args ])]

(***************************************************************************)
(* execute and _run_hook.                                                  *)
(***************************************************************************)
\* Variant: a non-zero exit status is raised as an error.
execute_checked(st, shell_cmd) ==
  LET o  == IF st.outs = << >> THEN Succeeds ELSE Head(st.outs)
      s1 == [st EXCEPT !.calls = Append(@, [ cmd |-> shell_cmd, env |-> st.environ ]),
                       !.outs = IF @ = << >> THEN @ ELSE Tail(@)]
  IN  IF st.raised # NoError THEN st
      ELSE IF split(shell_cmd) = << >>
        THEN Raise(s1, Exc("IndexError", "list index out of range", << >>))
      ELSE IF o.returncode # 0
        THEN Raise(s1, Exc("CalledProcessError",
                           "Command '%s' returned non-zero exit status %d",
                           << shell_cmd, format_d(o.returncode) >>))
      ELSE IF o.err # << >>
        THEN Logged(s1, "error", "Error output from %s:\n%s",
                    << basename(split(shell_cmd)[1]), o.err >>)
      ELSE s1

execute(st, shell_cmd) ==
  LET o  == IF st.outs = << >> THEN Succeeds ELSE Head(st.outs)
      s1 == [st EXCEPT !.calls = Append(@, [ cmd |-> shell_cmd, env |-> st.environ ]),
                       !.outs = IF @ = << >> THEN @ ELSE Tail(@)]
      fields == split(shell_cmd)
  IN  IF st.raised # NoError THEN st
      ELSE IF fields = << >>
        THEN Raise(s1, Exc("IndexError", "list index out of range", << >>))
      ELSE
        LET base_cmd == basename(fields[1])
            s2 == IF o.out # << >>
                    THEN Logged(s1, "info", "Output from %s:\n%s", << base_cmd, o.out >>)
                    ELSE s1
            s3 == IF o.returncode # 0
                    THEN Logged(s2, "error", "Hook command \"%s\" returned error code %d",
                                << shell_cmd, format_d(o.returncode) >>)
                    ELSE s2
            s4 == IF o.err # << >>
                    THEN Logged(s3, "error", "Error output from %s:\n%s", << base_cmd, o.err >>)
                    ELSE s3
        IN  s4

_run_hook(st, shell_cmd) == execute(st, shell_cmd)

(***************************************************************************)
(* list_hooks.                                                             *)
(***************************************************************************)
\* util.is_exe: an existing regular file with execute permission.
is_exe(path) == path \in fs.exe

\* os.listdir raises OSError for a directory that does not exist.
listdir_raises(dir_path) == dir_path \notin DOMAIN fs.listdir

\* Variant: the executables are returned in the order of os.listdir.
list_hooks_unsorted(dir_path) ==
  LET names == fs.listdir[dir_path]
      paths == [ i \in 1..Len(names) |-> path_join(dir_path, names[i]) ]
  IN  SelectSeq(paths, is_exe)

list_hooks(dir_path) ==
  LET names == fs.listdir[dir_path]
      paths == [ i \in 1..Len(names) |-> path_join(dir_path, names[i]) ]
  IN  sorted(SelectSeq(paths, is_exe))

ListError(dir_path) ==
  Exc("OSError", "No such file or directory: %s", << dir_path >>)

\* Variant: a directory that does not exist is listed as an empty one.
list_hooks_tolerant(st, dir_path) ==
  IF listdir_raises(dir_path) THEN st
  ELSE [st EXCEPT !.returned = list_hooks(dir_path)]

\* A call of list_hooks: the list it returns, or the error of os.listdir.
list_hooks_call(st, dir_path) ==
  IF listdir_raises(dir_path) THEN Raise(st, ListError(dir_path))
  ELSE [st EXCEPT !.returned = list_hooks(dir_path)]

(***************************************************************************)
(* Pre-hooks.                                                              *)
(***************************************************************************)
\* Variant: the command is run but never recorded in pre_hook.already.
_run_pre_hook_unrecorded(st, command) ==
  IF st.raised # NoError THEN st
  ELSE IF command \in st.already
    THEN Logged(st, "info", "Pre-hook command already run, skipping: %s", << command >>)
  ELSE _run_hook(Logged(st, "info", "Running pre-hook command: %s", << command >>),
                 command)

\* Variant: the command is recorded only when its subprocess has not failed.
_run_pre_hook_if_succeeded(st, command) ==
  IF st.raised # NoError THEN st
  ELSE IF command \in st.already
    THEN Logged(st, "info", "Pre-hook command already run, skipping: %s", << command >>)
  ELSE
    LET s1 == Logged(st, "info", "Running pre-hook command: %s", << command >>)
        o  == IF s1.outs = << >> THEN Succeeds ELSE Head(s1.outs)
        s2 == _run_hook(s1, command)
    IN  IF s2.raised # NoError \/ o.returncode # 0 \/ o.err # << >> THEN s2
        ELSE [s2 EXCEPT !.already = @ \cup { command }]

_run_pre_hook_if_necessary(st, command) ==
  IF st.raised # NoError THEN st
  ELSE IF command \in st.already
    THEN Logged(st, "info", "Pre-hook command already run, skipping: %s", << command >>)
  ELSE
    LET s1 == Logged(st, "info", "Running pre-hook command: %s", << command >>)
        s2 == _run_hook(s1, command)
    IN  IF s2.raised # NoError THEN s2
        ELSE [s2 EXCEPT !.already = @ \cup { command }]

RECURSIVE pre_hook_loop(_, _)
pre_hook_loop(st, hooks) ==
  IF hooks = << >> THEN st
  ELSE pre_hook_loop(_run_pre_hook_if_necessary(st, Head(hooks)), Tail(hooks))

\* Variant: the configured pre-hook is run before the directory pre-hooks.
pre_hook_config_first(st, config) ==
  LET cmd == config.pre_hook
      s1  == IF cmd # << >> THEN _run_pre_hook_if_necessary(st, cmd) ELSE st
  IN  IF config.verb = "renew" /\ config.directory_hooks
        THEN IF listdir_raises(config.renewal_pre_hooks_dir)
               THEN Raise(s1, ListError(config.renewal_pre_hooks_dir))
               ELSE pre_hook_loop(s1, list_hooks(config.renewal_pre_hooks_dir))
        ELSE s1

pre_hook(st, config) ==
  LET s1 == IF config.verb = "renew" /\ config.directory_hooks
              THEN IF listdir_raises(config.renewal_pre_hooks_dir)
                     THEN Raise(st, ListError(config.renewal_pre_hooks_dir))
                     ELSE pre_hook_loop(st, list_hooks(config.renewal_pre_hooks_dir))
              ELSE st
      cmd == config.pre_hook
  IN  IF s1.raised = NoError /\ cmd # << >>
        THEN _run_pre_hook_if_necessary(s1, cmd)
        ELSE s1

(***************************************************************************)
(* Post-hooks.                                                             *)
(***************************************************************************)
\* Variant: the command is appended without the membership test.
_run_eventually_append(st, command) ==
  IF st.raised # NoError THEN st
  ELSE [st EXCEPT !.given = Append(@, command), !.eventually = Append(@, command)]

_run_eventually(st, command) ==
  IF st.raised # NoError THEN st
  ELSE LET s1 == [st EXCEPT !.given = Append(@, command)]
       IN  IF command \notin Range(s1.eventually)
             THEN [s1 EXCEPT !.eventually = Append(@, command)]
             ELSE s1

RECURSIVE post_hook_loop(_, _)
post_hook_loop(st, hooks) ==
  IF hooks = << >> THEN st
  ELSE post_hook_loop(_run_eventually(st, Head(hooks)), Tail(hooks))

\* Variant: the configured post-hook is registered before the directory hooks.
post_hook_config_first(st, config) ==
  LET cmd == config.post_hook
  IN  IF config.verb = "renew"
        THEN LET s1 == IF cmd # << >> THEN _run_eventually(st, cmd) ELSE st
             IN  IF config.directory_hooks
                   THEN IF listdir_raises(config.renewal_post_hooks_dir)
                          THEN Raise(s1, ListError(config.renewal_post_hooks_dir))
                          ELSE post_hook_loop(s1, list_hooks(config.renewal_post_hooks_dir))
                   ELSE s1
      ELSE IF cmd # << >>
        THEN _run_hook(Logged(st, "info", "Running post-hook command: %s", << cmd >>), cmd)
      ELSE st

\* Variant: the directory hooks are registered whatever the verb is.
post_hook_dirs_always(st, config) ==
  LET cmd == config.post_hook
      s1  == IF config.directory_hooks
               THEN IF listdir_raises(config.renewal_post_hooks_dir)
                      THEN Raise(st, ListError(config.renewal_post_hooks_dir))
                      ELSE post_hook_loop(st, list_hooks(config.renewal_post_hooks_dir))
               ELSE st
  IN  IF s1.raised # NoError \/ cmd = << >> THEN s1
      ELSE IF config.verb = "renew" THEN _run_eventually(s1, cmd)
      ELSE _run_hook(Logged(s1, "info", "Running post-hook command: %s", << cmd >>), cmd)

post_hook(st, config) ==
  LET cmd == config.post_hook
  IN  IF config.verb = "renew"
        THEN LET s1 == IF config.directory_hooks
                         THEN IF listdir_raises(config.renewal_post_hooks_dir)
                                THEN Raise(st, ListError(config.renewal_post_hooks_dir))
                                ELSE post_hook_loop(st, list_hooks(config.renewal_post_hooks_dir))
                         ELSE st
             IN  IF s1.raised = NoError /\ cmd # << >>
                   THEN _run_eventually(s1, cmd)
                   ELSE s1
      ELSE IF cmd # << >>
        THEN _run_hook(Logged(st, "info", "Running post-hook command: %s", << cmd >>), cmd)
      ELSE st

RECURSIVE run_saved_loop(_, _)
run_saved_loop(st, cmds) ==
  IF cmds = << >> \/ st.raised # NoError THEN st
  ELSE run_saved_loop(
         _run_hook(Logged(st, "info", "Running post-hook command: %s", << Head(cmds) >>),
                   Head(cmds)),
         Tail(cmds))

\* Variant: the saved hooks are run in sorted order, not in saved order.
run_saved_post_hooks_sorted(st) == run_saved_loop(st, sorted(st.eventually))

\* Variant: the saved hooks are forgotten once they have been run.
run_saved_post_hooks_clearing(st) ==
  [ run_saved_loop(st, st.eventually) EXCEPT !.eventually = << >> ]

run_saved_post_hooks(st) == run_saved_loop(st, st.eventually)

(***************************************************************************)
(* Deploy-hooks and renew-hooks.                                           *)
(***************************************************************************)
\* Variant: the dry-run branch logs and falls through to the run.
_run_deploy_hook_always(st, command, domains, lineage_path, dry_run) ==
  IF st.raised # NoError THEN st
  ELSE
    LET s0  == IF dry_run
                 THEN Logged(st, "warning", "Dry run: skipping deploy hook command: %s",
                             << command >>)
                 ELSE st
        env == [ k \in DOMAIN s0.environ \cup { "RENEWED_DOMAINS", "RENEWED_LINEAGE" } |->
                   IF k = "RENEWED_DOMAINS" THEN str_join(<< " " >>, domains)
                   ELSE IF k = "RENEWED_LINEAGE" THEN lineage_path
                   ELSE s0.environ[k] ]
        s1  == [s0 EXCEPT !.environ = env]
        s2  == Logged(s1, "info", "Running deploy-hook command: %s", << command >>)
    IN  _run_hook(s2, command)

\* Variant: the two variables are set only when they are not set yet.
_run_deploy_hook_setdefault(st, command, domains, lineage_path, dry_run) ==
  IF st.raised # NoError THEN st
  ELSE IF dry_run
    THEN Logged(st, "warning", "Dry run: skipping deploy hook command: %s", << command >>)
  ELSE
    LET env == [ k \in DOMAIN st.environ \cup { "RENEWED_DOMAINS", "RENEWED_LINEAGE" } |->
                   IF k \in DOMAIN st.environ THEN st.environ[k]
                   ELSE IF k = "RENEWED_DOMAINS" THEN str_join(<< " " >>, domains)
                   ELSE lineage_path ]
        s1  == [st EXCEPT !.environ = env]
        s2  == Logged(s1, "info", "Running deploy-hook command: %s", << command >>)
    IN  _run_hook(s2, command)

_run_deploy_hook(st, command, domains, lineage_path, dry_run) ==
  IF st.raised # NoError THEN st
  ELSE IF dry_run
    THEN Logged(st, "warning", "Dry run: skipping deploy hook command: %s", << command >>)
  ELSE
    LET env == [ k \in DOMAIN st.environ \cup { "RENEWED_DOMAINS", "RENEWED_LINEAGE" } |->
                   IF k = "RENEWED_DOMAINS" THEN str_join(<< " " >>, domains)
                   ELSE IF k = "RENEWED_LINEAGE" THEN lineage_path
                   ELSE st.environ[k] ]
        s1  == [st EXCEPT !.environ = env]
        s2  == Logged(s1, "info", "Running deploy-hook command: %s", << command >>)
    IN  _run_hook(s2, command)

deploy_hook(st, config, domains, lineage_path) ==
  IF config.deploy_hook # << >>
    THEN _run_deploy_hook(st, config.deploy_hook, domains, lineage_path, config.dry_run)
    ELSE st

\* Variant: in a dry run the directory hooks are not recorded as executed.
RECURSIVE renew_hook_loop_dry_unrecorded(_, _, _, _, _)
renew_hook_loop_dry_unrecorded(st, hooks, domains, lineage_path, dry_run) ==
  IF hooks = << >> \/ st.raised # NoError THEN st
  ELSE LET s1 == _run_deploy_hook(st, Head(hooks), domains, lineage_path, dry_run)
           s2 == IF s1.raised # NoError \/ dry_run THEN s1
                 ELSE [s1 EXCEPT !.executed_dir_hooks = @ \cup { Head(hooks) }]
       IN  renew_hook_loop_dry_unrecorded(s2, Tail(hooks), domains, lineage_path, dry_run)

RECURSIVE renew_hook_loop(_, _, _, _, _)
renew_hook_loop(st, hooks, domains, lineage_path, dry_run) ==
  IF hooks = << >> \/ st.raised # NoError THEN st
  ELSE LET s1 == _run_deploy_hook(st, Head(hooks), domains, lineage_path, dry_run)
           s2 == IF s1.raised # NoError THEN s1
                 ELSE [s1 EXCEPT !.executed_dir_hooks = @ \cup { Head(hooks) }]
       IN  renew_hook_loop(s2, Tail(hooks), domains, lineage_path, dry_run)

\* Variant: the renew-hook is run without the test on executed_dir_hooks.
renew_hook_rerun(st, config, domains, lineage_path) ==
  LET s1 == IF config.directory_hooks
              THEN IF listdir_raises(config.renewal_deploy_hooks_dir)
                     THEN Raise(st, ListError(config.renewal_deploy_hooks_dir))
                     ELSE renew_hook_loop(st, list_hooks(config.renewal_deploy_hooks_dir),
                                          domains, lineage_path, config.dry_run)
              ELSE st
  IN  IF s1.raised = NoError /\ config.renew_hook # << >>
        THEN _run_deploy_hook(s1, config.renew_hook, domains, lineage_path,
                              config.dry_run)
        ELSE s1

\* Variant: a hook is run once in the process, as a pre-hook is.
RECURSIVE renew_hook_once_loop(_, _, _, _, _)
renew_hook_once_loop(st, hooks, domains, lineage_path, dry_run) ==
  IF hooks = << >> \/ st.raised # NoError THEN st
  ELSE IF Head(hooks) \in st.already
    THEN renew_hook_once_loop(
           Logged(st, "info", "Skipping deploy-hook '%s' as it was already run.",
                  << Head(hooks) >>),
           Tail(hooks), domains, lineage_path, dry_run)
  ELSE LET s1 == _run_deploy_hook(st, Head(hooks), domains, lineage_path, dry_run)
       IN  renew_hook_once_loop([s1 EXCEPT !.already = @ \cup { Head(hooks) }],
                                Tail(hooks), domains, lineage_path, dry_run)

renew_hook_process_wide(st, config, domains, lineage_path) ==
  IF config.directory_hooks /\ listdir_raises(config.renewal_deploy_hooks_dir)
    THEN Raise(st, ListError(config.renewal_deploy_hooks_dir))
    ELSE renew_hook_once_loop(
           st,
           (IF config.directory_hooks THEN list_hooks(config.renewal_deploy_hooks_dir)
            ELSE << >>)
           \o (IF config.renew_hook # << >> THEN << config.renew_hook >> ELSE << >>),
           domains, lineage_path, config.dry_run)

renew_hook(st, config, domains, lineage_path) ==
  LET s1 == IF config.directory_hooks
              THEN IF listdir_raises(config.renewal_deploy_hooks_dir)
                     THEN Raise(st, ListError(config.renewal_deploy_hooks_dir))
                     ELSE renew_hook_loop(st, list_hooks(config.renewal_deploy_hooks_dir),
                                          domains, lineage_path, config.dry_run)
              ELSE st
  IN  IF s1.raised = NoError /\ config.renew_hook # << >>
        THEN IF config.renew_hook \in s1.executed_dir_hooks
               THEN Logged(s1, "info", "Skipping deploy-hook '%s' as it was already run.",
                           << config.renew_hook >>)
               ELSE _run_deploy_hook(s1, config.renew_hook, domains, lineage_path,
                                     config.dry_run)
        ELSE s1

(***************************************************************************)
(* Validation.                                                             *)
(***************************************************************************)
\* util.exe_exists: a name with a directory part is tested as it stands, a
\* bare name is looked up in every directory of PATH.
exe_exists(exe, PATH) ==
  IF LastSlash(exe, Len(exe)) > 0 THEN is_exe(exe)
  ELSE \E d \in Range(split_sep(PATH, ":")) : is_exe(path_join(d, exe))

\* plugins.util.path_surgery: the directories appended to PATH when missing.
SurgeryDirs ==
  << << "/", "u", "s", "r", "/", "s", "b", "i", "n" >>,
     << "/", "u", "s", "r", "/", "l", "o", "c", "a", "l", "/", "b", "i", "n" >>,
     << "/", "u", "s", "r", "/", "l", "o", "c", "a", "l", "/", "s", "b", "i", "n" >> >>

RECURSIVE path_surgery(_, _)
path_surgery(PATH, dirs) ==
  IF dirs = << >> THEN PATH
  ELSE IF Contains(PATH, Head(dirs)) THEN path_surgery(PATH, Tail(dirs))
  ELSE path_surgery(PATH \o << ":" >> \o Head(dirs), Tail(dirs))

\* _prog: the state after the call, and whether a program was found (the
\* code returns its basename, or None).
_prog_state(st, shell_cmd) ==
  IF exe_exists(shell_cmd, st.environ.PATH) THEN st
  ELSE [st EXCEPT !.environ.PATH = path_surgery(@, SurgeryDirs)]

_prog(st, shell_cmd) ==
  IF exe_exists(shell_cmd, _prog_state(st, shell_cmd).environ.PATH)
    THEN basename(shell_cmd)
    ELSE << >>

\* Variant: the test whether the command exists is left out.
validate_hook_unfound(st, shell_cmd, hook_name) ==
  IF st.raised # NoError THEN st
  ELSE
    LET s0 == [st EXCEPT !.validated = Append(@, hook_name)]
    IN  IF shell_cmd = << >> THEN s0
        ELSE IF split(shell_cmd) = << >>
          THEN Raise(s0, Exc("IndexError", "list index out of range", << >>))
        ELSE
          LET cmd  == split(shell_cmd)[1]
              s1   == _prog_state(s0, cmd)
              path == s1.environ.PATH
          IN  IF _prog(s0, cmd) # << >> THEN s1
              ELSE Raise(s1, Exc("HookCommandNotFound",
                                 "Unable to find {2}-hook command {0} in the PATH.\n(PATH is {1})",
                                 << cmd, path, hook_name >>))

validate_hook(st, shell_cmd, hook_name) ==
  IF st.raised # NoError THEN st
  ELSE
    LET s0 == [st EXCEPT !.validated = Append(@, hook_name)]
    IN  IF shell_cmd = << >> THEN s0
        ELSE IF split(shell_cmd) = << >>
          THEN Raise(s0, Exc("IndexError", "list index out of range", << >>))
        ELSE
          LET cmd  == split(shell_cmd)[1]
              s1   == _prog_state(s0, cmd)
              path == s1.environ.PATH
          IN  IF _prog(s0, cmd) # << >> THEN s1
              ELSE IF cmd \in fs.present
                THEN Raise(s1, Exc("HookCommandNotFound",
                                   "{1}-hook command {0} exists, but is not executable.",
                                   << cmd, hook_name >>))
                ELSE Raise(s1, Exc("HookCommandNotFound",
                                   "Unable to find {2}-hook command {0} in the PATH.\n(PATH is {1})",
                                   << cmd, path, hook_name >>))

\* Variant: the post-hook is validated before the pre-hook.
validate_hooks_post_first(st, config) ==
  validate_hook(
    validate_hook(
      validate_hook(
        validate_hook(st, config.post_hook, << "p", "o", "s", "t" >>),
        config.pre_hook, << "p", "r", "e" >>),
      config.deploy_hook, << "d", "e", "p", "l", "o", "y" >>),
    config.renew_hook, << "r", "e", "n", "e", "w" >>)

validate_hooks(st, config) ==
  validate_hook(
    validate_hook(
      validate_hook(
        validate_hook(st, config.pre_hook, << "p", "r", "e" >>),
        config.post_hook, << "p", "o", "s", "t" >>),
      config.deploy_hook, << "d", "e", "p", "l", "o", "y" >>),
    config.renew_hook, << "r", "e", "n", "e", "w" >>)

(***************************************************************************)
(* The inputs of the operations.                                           *)
(***************************************************************************)
Verbs == { "renew", "certonly" }

PreHookCmds    == { << >>, path_join(PreHooksDir, A_sh), Echo }
PostHookCmds   == { << >>, path_join(PostHooksDir, B_sh), RelB_sh, Echo }
DeployHookCmds == { << >>, Echo }
RenewHookCmds  == { << >>, path_join(DeployHooksDir, A_sh), Echo }

\* The commands given to validate_hook, and the hook names it is given.
ValidateCmds ==
  { << >>, Echo, Nginx, Gone, Blank, A_sh, path_join(PreHooksDir, A_sh),
    path_join(PreHooksDir, C_txt) }
HookNames == { << "p", "r", "e" >>, << "r", "e", "n", "e", "w" >> }

\* The hooks of the configurations given to validate_hooks.
ValidatePre    == { << >>, Echo, Gone }
ValidatePost   == { << >>, path_join(PreHooksDir, C_txt) }
ValidateDeploy == { Nginx, Blank }
ValidateRenew  == { << >>, Gone }

\* The commands given to execute by callers outside the module.
ExecuteCmds == { Echo, Blank }

\* The directories given to list_hooks.
ListDirs == { PreHooksDir, PostHooksDir, DeployHooksDir, EmptyDir, MixedDir }

\* The renewed certificates: domains and lineage path.
Renewals ==
  { [ domains |-> << << "a", ".", "i", "o" >>, << "b", ".", "i", "o" >> >>,
      lineage_path |-> << "/", "l", "/", "a" >> ],
    [ domains |-> << << "c", ".", "i", "o" >> >>,
      lineage_path |-> << "/", "l", "/", "c" >> ] }

NoRenewal == [ domains |-> << >>, lineage_path |-> << >> ]

(***************************************************************************)
(* The state machine.                                                      *)
(***************************************************************************)
\* The kinds of hooks; "direct" is a command given to execute by a caller
\* outside the module.
HookKinds == { "pre", "post", "deploy", "direct" }

\* The bag of the commands of a sequence of Popen calls.
CommandsOf(cs) == [ i \in 1..Len(cs) |-> cs[i].cmd ]
BagOfSeq(xs) == [ x \in Range(xs) |-> Cardinality({ i \in DOMAIN xs : xs[i] = x }) ]

InitWith(n) ==
  /\ limit = n
  /\ already = {}
  /\ eventually = << >>
  /\ world \in DOMAIN Worlds
  /\ environ = [ PATH |-> fs.PATH ]
  /\ calls = << >>
  /\ log = << >>
  /\ last = [ op |-> "", config |-> NoConfig, command |-> << >>, hook_name |-> << >>,
              renewal |-> NoRenewal, dry_run |-> FALSE, outs |-> << >>,
              already0 |-> {}, eventually0 |-> << >>, given0 |-> 0,
              environ0 |-> environ, executed_dir_hooks |-> {},
              validated |-> << >>, returned |-> << >>, raised |-> NoError ]
  /\ given = << >>
  /\ nrun = [ k \in HookKinds |-> EmptyBag ]
  /\ nops = 0
  /\ threads = << >>

\* The operation op, running hooks of kind kind, has ended in the state
\* result: the module's state is what the operation left, and last records
\* the call, the state it started in and the exception it raised.
Finish(op, kind, config, command, hook_name, renewal, dry_run, outs, result) ==
  \E st \in { result } :
    /\ Len(st.given) <= MaxGiven
    /\ already' = st.already
    /\ eventually' = st.eventually
    /\ environ' = st.environ
    /\ calls' = st.calls
    /\ log' = st.log
    /\ given' = st.given
    /\ last' = [ op |-> op, config |-> config, command |-> command,
                 hook_name |-> hook_name, renewal |-> renewal, dry_run |-> dry_run,
                 outs |-> outs, already0 |-> already, eventually0 |-> eventually,
                 given0 |-> Len(given), environ0 |-> environ,
                 executed_dir_hooks |-> st.executed_dir_hooks,
                 validated |-> st.validated, returned |-> st.returned,
                 raised |-> st.raised ]
    /\ nrun' = [nrun EXCEPT ![kind] = @ (+) BagOfSeq(CommandsOf(st.calls))]
    /\ nops' = nops + 1
    /\ UNCHANGED << world, limit, threads >>

PreHook ==
  /\ nops < limit
  /\ \E verb \in Verbs, dh \in BOOLEAN, cmd \in PreHookCmds :
    LET config == Config(verb, dh, FALSE, cmd, << >>, << >>, << >>)
    IN  \E outs \in OutcomeSeqs(Len(pre_hook(Start(<< >>), config).calls)) :
          Finish("pre_hook", "pre", config, << >>, << >>, NoRenewal, FALSE, outs,
                 pre_hook(Start(outs), config))

RunPreHookIfNecessary ==
  /\ nops < limit
  /\ \E command \in PreHookCmds \ { << >> } :
    \E outs \in OutcomeSeqs(Len(_run_pre_hook_if_necessary(Start(<< >>), command).calls)) :
      Finish("_run_pre_hook_if_necessary", "pre", NoConfig, command, << >>, NoRenewal,
             FALSE, outs, _run_pre_hook_if_necessary(Start(outs), command))

PostHook ==
  /\ nops < limit
  /\ \E verb \in Verbs, dh \in BOOLEAN, cmd \in PostHookCmds :
    LET config == Config(verb, dh, FALSE, << >>, cmd, << >>, << >>)
    IN  \E outs \in OutcomeSeqs(Len(post_hook(Start(<< >>), config).calls)) :
          Finish("post_hook", "post", config, << >>, << >>, NoRenewal, FALSE, outs,
                 post_hook(Start(outs), config))

RunEventually ==
  /\ nops < limit
  /\ \E command \in PostHookCmds \ { << >> } :
    Finish("_run_eventually", "post", NoConfig, command, << >>, NoRenewal, FALSE,
           << >>, _run_eventually(Start(<< >>), command))

RunSavedPostHooks ==
  /\ nops < limit
  /\ \E outs \in OutcomeSeqs(Len(run_saved_post_hooks(Start(<< >>)).calls)) :
    Finish("run_saved_post_hooks", "post", NoConfig, << >>, << >>, NoRenewal, FALSE,
           outs, run_saved_post_hooks(Start(outs)))

DeployHook ==
  /\ nops < limit
  /\ \E cmd \in DeployHookCmds, dry \in BOOLEAN, r \in Renewals :
    LET config == Config("renew", FALSE, dry, << >>, << >>, cmd, << >>)
        run(outs) == deploy_hook(Start(outs), config, r.domains, r.lineage_path)
    IN  \E outs \in OutcomeSeqs(Len(run(<< >>).calls)) :
          Finish("deploy_hook", "deploy", config, << >>, << >>, r, dry, outs, run(outs))

RenewHook ==
  /\ nops < limit
  /\ \E dh \in BOOLEAN, cmd \in RenewHookCmds, dry \in BOOLEAN, r \in Renewals :
    LET config == Config("renew", dh, dry, << >>, << >>, << >>, cmd)
        run(outs) == renew_hook(Start(outs), config, r.domains, r.lineage_path)
    IN  \E outs \in OutcomeSeqs(Len(run(<< >>).calls)) :
          Finish("renew_hook", "deploy", config, << >>, << >>, r, dry, outs, run(outs))

RunDeployHook ==
  /\ nops < limit
  /\ \E command \in RenewHookCmds \ { << >> }, dry \in BOOLEAN, r \in Renewals :
    LET run(outs) == _run_deploy_hook(Start(outs), command, r.domains, r.lineage_path, dry)
    IN  \E outs \in OutcomeSeqs(Len(run(<< >>).calls)) :
          Finish("_run_deploy_hook", "deploy", NoConfig, command, << >>, r, dry, outs,
                 run(outs))

ValidateHook ==
  /\ nops < limit
  /\ \E shell_cmd \in ValidateCmds, hook_name \in HookNames :
    Finish("validate_hook", "pre", NoConfig, shell_cmd, hook_name, NoRenewal, FALSE,
           << >>, validate_hook(Start(<< >>), shell_cmd, hook_name))

ValidateHooks ==
  /\ nops < limit
  /\ \E pre \in ValidatePre, post \in ValidatePost, deploy \in ValidateDeploy,
     renew \in ValidateRenew :
    LET config == Config("renew", TRUE, FALSE, pre, post, deploy, renew)
    IN  Finish("validate_hooks", "pre", config, << >>, << >>, NoRenewal, FALSE, << >>,
               validate_hooks(Start(<< >>), config))

\* A call of execute from outside the module: it returns (err, out).
Execute ==
  /\ nops < limit
  /\ \E shell_cmd \in ExecuteCmds, o \in Outcomes :
    LET st == execute(Start(<< o >>), shell_cmd)
    IN  Finish("execute", "direct", NoConfig, shell_cmd, << >>, NoRenewal, FALSE, << o >>,
               IF st.raised = NoError THEN [st EXCEPT !.returned = << o.err, o.out >>]
               ELSE st)

ListHooks ==
  /\ nops < limit
  /\ \E dir_path \in ListDirs :
    Finish("list_hooks", "pre", NoConfig, dir_path, << >>, NoRenewal, FALSE, << >>,
           list_hooks_call(Start(<< >>), dir_path))

Next ==
  \/ Execute
  \/ ListHooks
  \/ PreHook
  \/ RunPreHookIfNecessary
  \/ PostHook
  \/ RunEventually
  \/ RunSavedPostHooks
  \/ DeployHook
  \/ RenewHook
  \/ RunDeployHook
  \/ ValidateHook
  \/ ValidateHooks

Init == InitWith(MaxOps)

Spec == Init /\ [][Next]_vars

\* A process that calls only the pre-hook operations.
InitPre == InitWith(MaxPreOps)
NextPre == PreHook \/ RunPreHookIfNecessary
SpecPre == InitPre /\ [][NextPre]_vars

\* A process that calls only the post-hook operations.
InitPost == InitWith(MaxPostOps)
NextPost == PostHook \/ RunEventually \/ RunSavedPostHooks
SpecPost == InitPost /\ [][NextPost]_vars

\* A process that calls only the deploy-hook operations.
InitDeploy == InitWith(MaxDeployOps)
NextDeploy == DeployHook \/ RenewHook \/ RunDeployHook
SpecDeploy == InitDeploy /\ [][NextDeploy]_vars

\* A process that renews certificates, one after the other, with one
\* configuration and no dry run, after it has run pre-hooks and registered
\* post-hooks or not.
HooksBefore == { << >>, << path_join(DeployHooksDir, A_sh), Echo >> }

InitRenew ==
  /\ limit = MaxRenewOps
  /\ already \in { Range(h) : h \in HooksBefore }
  /\ eventually \in HooksBefore
  /\ world \in DOMAIN Worlds
  /\ environ = [ PATH |-> fs.PATH ]
  /\ calls = << >>
  /\ log = << >>
  /\ last = [ op |-> "", config |-> NoConfig, command |-> << >>, hook_name |-> << >>,
              renewal |-> NoRenewal, dry_run |-> FALSE, outs |-> << >>,
              already0 |-> already, eventually0 |-> eventually,
              given0 |-> Len(eventually), environ0 |-> environ,
              executed_dir_hooks |-> {}, validated |-> << >>, returned |-> << >>,
              raised |-> NoError ]
  /\ given = eventually
  /\ nrun = [ k \in HookKinds |-> IF k = "pre" THEN SetToBag(already) ELSE EmptyBag ]
  /\ nops = 0
  /\ threads = << >>

RenewPass ==
  /\ RenewHook
  /\ ~ last'.dry_run
  /\ last.op = "renew_hook" => last'.config = last.config

NextRenew == RenewPass
SpecRenew == InitRenew /\ [][NextRenew]_vars

(***************************************************************************)
(* Concurrent callers.  Threads call _run_pre_hook_if_necessary and        *)
(* _run_eventually; a thread can be preempted between any two statements,  *)
(* and while it waits for its subprocess the other threads run.            *)
(* threads.call[t] is the call thread t is in, and where it is in it;      *)
(* threads.overlapped records whether a call has begun while another call  *)
(* was in progress.                                                        *)
(***************************************************************************)
Threads == 1..NThreads

ThreadCmds == { Echo, path_join(PreHooksDir, A_sh) }

Idle == [ pc |-> "idle", op |-> "", command |-> << >> ]

\* Variant: the command is not recorded.
already_add_lost(alr, command) == alr

\* pre_hook.already.add(command)
already_add(alr, command) == alr \cup { command }

InitThreads ==
  /\ limit = MaxThreadOps
  /\ already = {}
  /\ eventually = << >>
  /\ world \in DOMAIN Worlds
  /\ environ = [ PATH |-> fs.PATH ]
  /\ calls = << >>
  /\ log = << >>
  /\ last = [ op |-> "", config |-> NoConfig, command |-> << >>, hook_name |-> << >>,
              renewal |-> NoRenewal, dry_run |-> FALSE, outs |-> << >>,
              already0 |-> {}, eventually0 |-> << >>, given0 |-> 0,
              environ0 |-> environ, executed_dir_hooks |-> {},
              validated |-> << >>, returned |-> << >>, raised |-> NoError ]
  /\ given = << >>
  /\ nrun = [ k \in HookKinds |-> EmptyBag ]
  /\ nops = 0
  /\ threads = [ call |-> [ t \in Threads |-> Idle ], overlapped |-> FALSE ]

\* Thread t moves on in its call; calls and log hold what this step has
\* handed to Popen and to the logger.
Step(t, now, cs, entries) ==
  /\ threads' = [threads EXCEPT !.call[t] = now]
  /\ calls' = cs
  /\ log' = entries
  /\ nrun' = [nrun EXCEPT !.pre = @ (+) BagOfSeq(CommandsOf(cs))]
  /\ UNCHANGED << environ, world, last, limit >>

\* A thread calls _run_pre_hook_if_necessary or _run_eventually.
ThreadCall(t) ==
  /\ nops < limit
  /\ threads.call[t].pc = "idle"
  /\ \E op \in { "_run_pre_hook_if_necessary", "_run_eventually" },
        command \in ThreadCmds :
       threads' = [threads EXCEPT
                     !.call[t] = [ pc |-> "test", op |-> op, command |-> command ],
                     !.overlapped = @ \/ \E u \in Threads \ { t } :
                                            threads.call[u].pc # "idle"]
  /\ nops' = nops + 1
  /\ calls' = << >>
  /\ log' = << >>
  /\ UNCHANGED << already, eventually, environ, world, last, given, nrun, limit >>

\* hooks.py:91-92, the test and the branch that skips.
PreTest(t) ==
  LET c == threads.call[t]
  IN  /\ c.pc = "test" /\ c.op = "_run_pre_hook_if_necessary"
      /\ IF c.command \in already
           THEN Step(t, Idle, << >>,
                     << [ level |-> "info",
                          text |-> "Pre-hook command already run, skipping: %s",
                          args |-> << c.command >> ] >>)
           ELSE Step(t, [c EXCEPT !.pc = "run"], << >>, << >>)
      /\ UNCHANGED << already, eventually, given, nops >>

\* hooks.py:94 and 240: the log entry and the start of the subprocess.  The
\* thread then waits in communicate, hooks.py:242, while other threads run.
PreStart(t) ==
  LET c == threads.call[t]
  IN  /\ c.pc = "run"
      /\ Step(t, [c EXCEPT !.pc = "wait"],
              << [ cmd |-> c.command, env |-> environ ] >>,
              << [ level |-> "info", text |-> "Running pre-hook command: %s",
                   args |-> << c.command >> ] >>)
      /\ UNCHANGED << already, eventually, given, nops >>

\* hooks.py:242-251: the subprocess ends and execute logs what it did.
PreEnd(t) ==
  LET c == threads.call[t]
  IN  /\ c.pc = "wait"
      /\ \E o \in Outcomes :
           Step(t, [c EXCEPT !.pc = "add"], << >>, _run_hook(Start(<< o >>), c.command).log)
      /\ UNCHANGED << already, eventually, given, nops >>

\* hooks.py:96
PreAdd(t) ==
  LET c == threads.call[t]
  IN  /\ c.pc = "add"
      /\ already' = already_add(already, c.command)
      /\ Step(t, Idle, << >>, << >>)
      /\ UNCHANGED << eventually, given, nops >>

\* hooks.py:142, the test.
EventuallyTest(t) ==
  LET c == threads.call[t]
  IN  /\ c.pc = "test" /\ c.op = "_run_eventually"
      /\ given' = Append(given, c.command)
      /\ IF c.command \notin Range(eventually)
           THEN Step(t, [c EXCEPT !.pc = "append"], << >>, << >>)
           ELSE Step(t, Idle, << >>, << >>)
      /\ UNCHANGED << already, eventually, nops >>

\* hooks.py:143
EventuallyAppend(t) ==
  LET c == threads.call[t]
  IN  /\ c.pc = "append"
      /\ eventually' = Append(eventually, c.command)
      /\ Step(t, Idle, << >>, << >>)
      /\ UNCHANGED << already, given, nops >>

NextThreads ==
  \E t \in Threads :
    \/ ThreadCall(t)
    \/ PreTest(t)
    \/ PreStart(t)
    \/ PreEnd(t)
    \/ PreAdd(t)
    \/ EventuallyTest(t)
    \/ EventuallyAppend(t)

SpecThreads == InitThreads /\ [][NextThreads]_vars

\* A process that calls list_hooks and the operations that list a directory.
InitDir == InitWith(MaxDirOps)
NextDir == ListHooks \/ PreHook \/ PostHook \/ RenewHook
SpecDir == InitDir /\ [][NextDir]_vars

(***************************************************************************)
(* Properties.                                                             *)
(***************************************************************************)
Entry(level, text, args) == [ level |-> level, text |-> text, args |-> args ]

\* The commands the latest operation handed to Popen, in order.
Ran == CommandsOf(calls)

\* No element of xs occurs twice.
Distinct(xs) == \A i, j \in DOMAIN xs : xs[i] = xs[j] => i = j

\* The index of the first occurrence of x in xs.
FirstIndex(xs, x) == CHOOSE i \in DOMAIN xs : xs[i] = x /\ \A j \in 1..(i - 1) : xs[j] # x

\* ys is xs with every occurrence of an element after its first removed.
IsFirstOccurrences(ys, xs) ==
  /\ Distinct(ys)
  /\ Range(ys) = Range(xs)
  /\ \A i, j \in DOMAIN ys : i < j => FirstIndex(xs, ys[i]) < FirstIndex(xs, ys[j])

\* C1: whatever pre_hook and _run_pre_hook_if_necessary calls a process
\* makes, no command is run as a pre-hook more than once; a request for a
\* command that was not yet run runs it, and a request for a command that was
\* run logs that it is skipped and starts no subprocess.
C1_PreHookRunsOnce ==
  /\ \A c \in BagToSet(nrun.pre) : CopiesIn(c, nrun.pre) = 1
  /\ last.op = "_run_pre_hook_if_necessary" =>
       IF last.command \in last.already0
         THEN /\ calls = << >>
              /\ log = << Entry("info", "Pre-hook command already run, skipping: %s",
                                << last.command >>) >>
         ELSE Ran = << last.command >>

\* A command is requested a second time, after it was run once.
C1_Witness ==
  /\ last.op = "_run_pre_hook_if_necessary"
  /\ last.command \in last.already0
  /\ CopiesIn(last.command, nrun.pre) = 1

\* C2: post_hook.eventually is the sequence of the first occurrences of the
\* commands given to _run_eventually, in the order they were given, and holds
\* no command twice.
C2_EventuallyFirstOccurrences ==
  /\ IsFirstOccurrences(eventually, given)
  /\ Distinct(eventually)

\* A command was given twice, between two other commands.
C2_Witness ==
  /\ Len(eventually) >= 3
  /\ \E i, j \in DOMAIN given : i < j /\ j < Len(given) /\ given[i] = given[j]

\* C3: run_saved_post_hooks runs every command given to _run_eventually
\* exactly once, in the order of their first registration, and nothing else.
C3_FlushRunsEachOnceInOrder ==
  last.op = "run_saved_post_hooks" =>
    /\ IsFirstOccurrences(Ran, given)
    /\ last.raised = NoError

\* A flush after two batch-mode post_hook calls that registered, between
\* them, three commands, one of them twice, not in sorted order.
C3_Witness ==
  /\ last.op = "run_saved_post_hooks"
  /\ Len(Ran) = 3
  /\ Len(given) > 3
  /\ Ran # sorted(Ran)

\* The executables of the directory dir_path, as paths; none when there is
\* no such directory.
Executables(dir_path) ==
  IF dir_path \in DOMAIN fs.listdir
    THEN { path_join(dir_path, f) : f \in Range(fs.listdir[dir_path]) } \cap fs.exe
    ELSE {}

\* The elements of the set S of strings in strictly ascending order.
Ascending(S) ==
  CHOOSE xs \in [ 1..Cardinality(S) -> S ] :
    /\ Range(xs) = S
    /\ \A i \in 1..(Len(xs) - 1) : StrLess(xs[i], xs[i + 1])

\* The hooks of a directory as an operation with configuration config is to
\* process them: none when directory hooks are off.
DirectoryHooks(config, dir_path) ==
  IF config.directory_hooks THEN Ascending(Executables(dir_path)) ELSE << >>

\* The configured hook, as a sequence of at most one command.
Configured(cmd) == IF cmd # << >> THEN << cmd >> ELSE << >>

\* The operation raised because it listed a directory that does not exist.
ListingFailed(dir_path) ==
  /\ last.config.directory_hooks
  /\ dir_path \notin DOMAIN fs.listdir
  /\ last.raised.type = "OSError"

\* The commands the latest operation gave to _run_eventually, in order.
Registered == SubSeq(given, last.given0 + 1, Len(given))

\* C4: with the verb renew, post_hook starts no subprocess; when it returns
\* it has registered the executables of the post-hook directory in ascending
\* order (if directory hooks are on) and then the configured post-hook (if
\* there is one).  It returns unless it lists a directory that does not exist.
C4_BatchPostHookOnlyRegisters ==
  (last.op = "post_hook" /\ last.config.verb = "renew") =>
    /\ calls = << >>
    /\ \/ /\ last.raised = NoError
          /\ Registered = DirectoryHooks(last.config, last.config.renewal_post_hooks_dir)
                            \o Configured(last.config.post_hook)
       \/ ListingFailed(last.config.renewal_post_hooks_dir)

\* A batch-mode post_hook registers two directory hooks and then a
\* configured hook, and nothing has been run.
C4_Witness ==
  /\ last.op = "post_hook"
  /\ last.config.verb = "renew"
  /\ last.raised = NoError
  /\ Len(Registered) = 3
  /\ Registered[3] = last.config.post_hook
  /\ nrun.post = EmptyBag

\* C5: with another verb than renew, post_hook runs the configured post-hook
\* at once and exactly once when there is one and runs nothing otherwise; it
\* does not look at the post-hook directory and leaves post_hook.eventually
\* as it was.
C5_SinglePostHookRunsNow ==
  (last.op = "post_hook" /\ last.config.verb # "renew") =>
    /\ Ran = Configured(last.config.post_hook)
    /\ last.config.post_hook # << >> =>
         Head(log) = Entry("info", "Running post-hook command: %s",
                           << last.config.post_hook >>)
    /\ eventually = last.eventually0
    /\ Registered = << >>
    /\ last.raised = NoError

\* With directory hooks on, executables in the directory and hooks pending,
\* a post_hook of a single operation runs the configured hook.
C5_Witness ==
  /\ last.op = "post_hook"
  /\ last.config.verb # "renew"
  /\ last.config.directory_hooks
  /\ Executables(last.config.renewal_post_hooks_dir) # {}
  /\ last.eventually0 # << >>
  /\ Len(Ran) = 1

\* C6: in a renew_hook pass with directory hooks and no dry run, a
\* configured renew-hook that is the path of an executable of the deploy-hook
\* directory is run once in the pass, as one of the directory hooks, and is
\* then logged as skipped.
C6_RenewHookNotRunTwice ==
  ( /\ last.op = "renew_hook"
    /\ last.config.directory_hooks
    /\ ~ last.dry_run
    /\ last.config.renewal_deploy_hooks_dir \in DOMAIN fs.listdir
    /\ last.config.renew_hook \in Executables(last.config.renewal_deploy_hooks_dir) ) =>
    /\ Cardinality({ i \in DOMAIN Ran : Ran[i] = last.config.renew_hook }) = 1
    /\ Ran = Ascending(Executables(last.config.renewal_deploy_hooks_dir))
    /\ log[Len(log)] = Entry("info", "Skipping deploy-hook '%s' as it was already run.",
                             << last.config.renew_hook >>)

\* The configured renew-hook is one of two executables of the directory.
C6_Witness ==
  /\ last.op = "renew_hook"
  /\ last.config.directory_hooks
  /\ ~ last.dry_run
  /\ last.config.renew_hook \in Range(Ran)
  /\ Len(Ran) = 2

\* The commands named by the dry-run warnings of the latest operation.
DryRunWarned ==
  LET w == SelectSeq(log, LAMBDA e : e.level = "warning")
  IN  [ i \in 1..Len(w) |-> w[i].args[1] ]

\* The hooks a deploy operation hands to _run_deploy_hook, in order.
DeployRequests ==
  IF last.op = "_run_deploy_hook" THEN << last.command >>
  ELSE IF last.op = "deploy_hook" THEN Configured(last.config.deploy_hook)
  ELSE IF last.raised # NoError THEN << >>
  ELSE LET d == DirectoryHooks(last.config, last.config.renewal_deploy_hooks_dir)
       IN  d \o (IF last.config.renew_hook \in Range(d) THEN << >>
                 ELSE Configured(last.config.renew_hook))

\* C7: in a dry run, _run_deploy_hook, deploy_hook and renew_hook start no
\* subprocess, and log one warning for every hook they were to run, naming
\* its command.
C7_DryRunNeverExecutes ==
  (last.dry_run /\ last.op \in { "_run_deploy_hook", "deploy_hook", "renew_hook" }) =>
    /\ calls = << >>
    /\ DryRunWarned = DeployRequests
    /\ \A i \in DOMAIN log :
         log[i].level = "warning" =>
           log[i].text = "Dry run: skipping deploy hook command: %s"

\* A dry-run renew_hook pass over two directory hooks and a configured hook.
C7_Witness ==
  /\ last.op = "renew_hook"
  /\ last.dry_run
  /\ Len(DryRunWarned) = 3
  /\ calls = << >>

\* The operations that run hooks.
HookOps ==
  { "pre_hook", "post_hook", "run_saved_post_hooks", "deploy_hook", "renew_hook" }

\* The subprocess failed: a non-zero exit status, output on stderr, or both.
Failed(o) == o.returncode # 0 \/ o.err # << >>

\* The commands the latest operation is to run, whatever their outcomes.
Planned ==
  IF last.raised.type = "OSError" THEN << >>
  ELSE IF last.op = "pre_hook" THEN
    LET d == IF last.config.verb = "renew"
               THEN DirectoryHooks(last.config, last.config.renewal_pre_hooks_dir)
               ELSE << >>
        c == IF last.config.pre_hook \in Range(d) THEN << >>
             ELSE Configured(last.config.pre_hook)
    IN  SelectSeq(d \o c, LAMBDA h : h \notin last.already0)
  ELSE IF last.op = "post_hook" THEN
    IF last.config.verb = "renew" THEN << >> ELSE Configured(last.config.post_hook)
  ELSE IF last.op = "run_saved_post_hooks" THEN eventually
  ELSE IF last.dry_run THEN << >>
  ELSE DeployRequests

\* The error entries execute logs for the i-th subprocess of the operation.
ErrorsOf(i) ==
  LET o == last.outs[i]
  IN  (IF o.returncode # 0
         THEN << Entry("error", "Hook command \"%s\" returned error code %d",
                       << calls[i].cmd, format_d(o.returncode) >>) >>
         ELSE << >>)
      \o
      (IF o.err # << >>
         THEN << Entry("error", "Error output from %s:\n%s",
                       << basename(split(calls[i].cmd)[1]), o.err >>) >>
         ELSE << >>)

RECURSIVE ErrorsUpTo(_)
ErrorsUpTo(n) == IF n = 0 THEN << >> ELSE ErrorsUpTo(n - 1) \o ErrorsOf(n)

\* C8: whatever the subprocesses of pre_hook, post_hook,
\* run_saved_post_hooks, deploy_hook and renew_hook do (exit with a non-zero
\* status, write to stderr, or both), the operation raises nothing, logs each
\* failure as an error, and runs every hook it was to run, those after a
\* failing one included.
C8_HookFailuresAreLoggedOnly ==
  last.op \in HookOps =>
    /\ calls # << >> => last.raised = NoError
    /\ Ran = Planned
    /\ Len(last.outs) = Len(calls)
    /\ SelectSeq(log, LAMBDA e : e.level = "error") = ErrorsUpTo(Len(calls))

\* The first two of three hooks of a renew_hook pass fail, the first with a
\* non-zero status and output on stderr, and the third is run.
C8_Witness ==
  /\ last.op = "renew_hook"
  /\ Len(calls) = 3
  /\ last.outs[1].returncode # 0 /\ last.outs[1].err # << >>
  /\ Failed(last.outs[2])
  /\ last.raised = NoError

\* The error kind of a hook command that is not found.
HookNotFound == "HookCommandNotFound"

\* The token resolves to an executable, as it stands or after PATH surgery.
Resolves(token) ==
  \/ exe_exists(token, last.environ0.PATH)
  \/ exe_exists(token, path_surgery(last.environ0.PATH, SurgeryDirs))

\* The hook command has a first token, and it resolves to no executable.
Unresolved(shell_cmd) ==
  /\ shell_cmd # << >>
  /\ split(shell_cmd) # << >>
  /\ ~ Resolves(split(shell_cmd)[1])

\* The error validate_hook raises for the unresolved command of a hook.
NotFoundError(shell_cmd, hook_name) ==
  LET token == split(shell_cmd)[1]
  IN  IF token \in fs.present
        THEN Exc(HookNotFound, "{1}-hook command {0} exists, but is not executable.",
                 << token, hook_name >>)
        ELSE Exc(HookNotFound,
                 "Unable to find {2}-hook command {0} in the PATH.\n(PATH is {1})",
                 << token, environ.PATH, hook_name >>)

\* C9, as claimed: validate_hook on a command whose first token resolves to
\* no executable fails with an error kind of its own, distinct from
\* HookNotFound, when the token's path exists, and with HookNotFound, citing
\* the kind, the token and PATH, otherwise.
C9_DistinctErrorKinds ==
  (last.op = "validate_hook" /\ Unresolved(last.command)) =>
    IF split(last.command)[1] \in fs.present \ fs.exe
      THEN last.raised.type \notin { "", HookNotFound }
      ELSE last.raised = NotFoundError(last.command, last.hook_name)

\* C9, as amended: validate_hook on a command whose first token resolves to
\* no executable raises HookCommandNotFound in both cases; the message says
\* that the command exists but is not executable, citing the kind and the
\* token, when the token's path exists, and that it cannot be found, citing
\* the kind, the token and PATH, otherwise.
C9_OneErrorKindTwoMessages ==
  (last.op = "validate_hook" /\ Unresolved(last.command)) =>
    last.raised = NotFoundError(last.command, last.hook_name)

\* validate_hook has been given a path that exists and is not executable.
C9_Witness ==
  /\ last.op = "validate_hook"
  /\ Unresolved(last.command)
  /\ split(last.command)[1] \in fs.present
  /\ last.raised.type = HookNotFound

\* The hooks of the configuration given to validate_hooks, and their names.
HooksOf(config) ==
  << config.pre_hook, config.post_hook, config.deploy_hook, config.renew_hook >>
NamesOf ==
  << << "p", "r", "e" >>, << "p", "o", "s", "t" >>,
     << "d", "e", "p", "l", "o", "y" >>, << "r", "e", "n", "e", "w" >> >>

\* The hook is set and validate_hook rejects it.
Invalid(shell_cmd) ==
  shell_cmd # << >> /\ (split(shell_cmd) = << >> \/ Unresolved(shell_cmd))

\* The index of the first invalid hook of the configuration, 5 if there is none.
FirstInvalid(config) ==
  CHOOSE k \in 1..5 :
    /\ k <= 4 => Invalid(HooksOf(config)[k])
    /\ \A j \in 1..(k - 1) : ~ Invalid(HooksOf(config)[j])

\* C10: validate_hooks validates the pre, post, deploy and renew hook in
\* that order, takes a hook that is not set for valid, stops at the first
\* invalid hook and raises its error, raises nothing when there is none, and
\* neither starts a subprocess nor changes pre_hook.already or
\* post_hook.eventually.
C10_ValidateHooksInOrder ==
  last.op = "validate_hooks" =>
    LET k == FirstInvalid(last.config)
    IN  /\ last.validated = SubSeq(NamesOf, 1, Min(k, 4))
        /\ last.raised =
             IF k = 5 THEN NoError
             ELSE IF split(HooksOf(last.config)[k]) = << >>
               THEN Exc("IndexError", "list index out of range", << >>)
             ELSE NotFoundError(HooksOf(last.config)[k], NamesOf[k])
        /\ calls = << >>
        /\ already = last.already0
        /\ eventually = last.eventually0
        /\ Registered = << >>

\* After a pre-hook has run, validate_hooks accepts the pre-hook, rejects the
\* post-hook and does not reach the deploy-hook, which is invalid too.
C10_Witness ==
  /\ last.op = "validate_hooks"
  /\ already # {}
  /\ FirstInvalid(last.config) = 2
  /\ last.config.pre_hook # << >>
  /\ Invalid(last.config.deploy_hook)
  /\ last.raised.type = HookNotFound

\* The directory the latest operation lists, << >> when it lists none.
ListedDir ==
  IF last.op = "list_hooks" THEN last.command
  ELSE IF last.op = "pre_hook" /\ last.config.verb = "renew" /\ last.config.directory_hooks
    THEN last.config.renewal_pre_hooks_dir
  ELSE IF last.op = "post_hook" /\ last.config.verb = "renew" /\ last.config.directory_hooks
    THEN last.config.renewal_post_hooks_dir
  ELSE IF last.op = "renew_hook" /\ last.config.directory_hooks
    THEN last.config.renewal_deploy_hooks_dir
  ELSE << >>

\* The latest operation lists a directory that does not exist.
MissingListed == ListedDir # << >> /\ ListedDir \notin DOMAIN fs.listdir

\* The latest operation has run nothing, registered nothing and logged nothing.
NothingDone ==
  /\ calls = << >>
  /\ log = << >>
  /\ Registered = << >>
  /\ already = last.already0
  /\ eventually = last.eventually0
  /\ environ = last.environ0

\* C11, as claimed: list_hooks on a directory that does not exist returns
\* the empty list and raises nothing, and pre_hook, post_hook and renew_hook
\* with directory hooks on and no hook directory raise nothing and go on to
\* the configured hook, as they do for an empty directory.
C11_MissingDirectoryIsEmpty ==
  MissingListed =>
    /\ last.raised = NoError
    /\ last.returned = << >>
    /\ last.op = "pre_hook" => Ran = Configured(last.config.pre_hook)
    /\ last.op = "post_hook" => Registered = Configured(last.config.post_hook)
    /\ (last.op = "renew_hook" /\ ~ last.dry_run) =>
         Ran = Configured(last.config.renew_hook)

\* C11, as amended: list_hooks on a directory that does not exist raises the
\* OSError of os.listdir, and so do pre_hook and post_hook (verb renew) and
\* renew_hook with directory hooks on and no hook directory: they run,
\* register and log nothing, the configured hook included.  list_hooks on an
\* empty directory returns the empty list.
C11_MissingDirectoryRaises ==
  /\ MissingListed =>
       /\ last.raised = ListError(ListedDir)
       /\ last.returned = << >>
       /\ NothingDone
  /\ (last.op = "list_hooks" /\ ~ MissingListed /\ fs.listdir[ListedDir] = << >>) =>
       (last.raised = NoError /\ last.returned = << >>)

\* list_hooks has been called on a directory that does not exist, in a
\* process that has run a pre-hook or registered a post-hook before.
C11_Witness ==
  /\ last.op = "list_hooks"
  /\ MissingListed
  /\ last.raised.type = "OSError"
  /\ (already # {} \/ eventually # << >>)

\* Scenario B: a batch-mode post_hook with directory hooks on, a post-hook
\* directory whose executables are a.sh and b.sh, the relative path of b.sh as
\* the configured post-hook and no post-hook registered before.
ScenarioB ==
  /\ last.op = "post_hook"
  /\ last.config.verb = "renew"
  /\ last.config.directory_hooks
  /\ last.config.post_hook = RelB_sh
  /\ Executables(last.config.renewal_post_hooks_dir) =
       { path_join(PostHooksDir, A_sh), path_join(PostHooksDir, B_sh) }
  /\ last.eventually0 = << >>

\* The flush of what scenario B has registered.
ScenarioBFlush ==
  /\ last.op = "run_saved_post_hooks"
  /\ given = << path_join(PostHooksDir, A_sh), path_join(PostHooksDir, B_sh), RelB_sh >>

\* C12, as claimed: in scenario B post_hook.eventually is the absolute paths
\* of a.sh and b.sh, b.sh registered once, and the flush runs these two
\* commands in that order.
C12_RelativeHookDeduplicated ==
  /\ ScenarioB =>
       eventually = << path_join(PostHooksDir, A_sh), path_join(PostHooksDir, B_sh) >>
  /\ ScenarioBFlush =>
       Ran = << path_join(PostHooksDir, A_sh), path_join(PostHooksDir, B_sh) >>

\* C12, what the code does: in scenario B post_hook.eventually is the absolute
\* paths of a.sh and b.sh and then the configured relative string, which is
\* equal to neither, and the flush runs these three commands in that order.
C12_RelativeHookRegisteredToo ==
  /\ ScenarioB =>
       eventually =
         << path_join(PostHooksDir, A_sh), path_join(PostHooksDir, B_sh), RelB_sh >>
  /\ ScenarioBFlush =>
       Ran = << path_join(PostHooksDir, A_sh), path_join(PostHooksDir, B_sh), RelB_sh >>

\* Scenario B has been flushed.
C12_Witness ==
  /\ ScenarioBFlush
  /\ eventually = given
  /\ Len(Ran) = 3

\* xs is the beginning of ys.
IsPrefix(xs, ys) == Len(xs) <= Len(ys) /\ SubSeq(ys, 1, Len(xs)) = xs

\* C13, as claimed: post_hook.eventually only grows at its end until
\* run_saved_post_hooks is called, is empty when run_saved_post_hooks has
\* returned, and a second run_saved_post_hooks right after the first starts no
\* subprocess.
C13_FlushClearsPending ==
  [][ /\ last'.op # "run_saved_post_hooks" => IsPrefix(eventually, eventually')
      /\ last'.op = "run_saved_post_hooks" => eventually' = << >>
      /\ (last.op = "run_saved_post_hooks" /\ last'.op = "run_saved_post_hooks") =>
           calls' = << >> ]_vars

\* C13, as amended: post_hook.eventually only ever grows at its end:
\* run_saved_post_hooks leaves it as it is, so every run_saved_post_hooks, a
\* second one right after the first included, runs all the commands
\* registered so far.
C13_PendingNeverCleared ==
  [][ /\ IsPrefix(eventually, eventually')
      /\ last'.op = "run_saved_post_hooks" =>
           (eventually' = eventually /\ CommandsOf(calls') = eventually) ]_vars

\* A directory hook, which only a flush runs, has been run by two flushes.
C13_Witness ==
  /\ last.op = "run_saved_post_hooks"
  /\ Len(eventually) >= 2
  /\ Ran = eventually
  /\ CopiesIn(path_join(PostHooksDir, A_sh), nrun.post) = 2

\* The commands named by the entries of the log with one of the texts.
LoggedCommands(texts) ==
  LET es == SelectSeq(log, LAMBDA e : e.text \in texts)
  IN  [ i \in 1..Len(es) |-> es[i].args[1] ]

\* The hooks the latest operation has processed, in order: the pre-hooks
\* pre_hook has run or skipped, the post-hooks post_hook has registered, the
\* deploy-hooks renew_hook has run or, in a dry run, warned about.
Processed ==
  IF last.op = "pre_hook"
    THEN LoggedCommands({ "Running pre-hook command: %s",
                          "Pre-hook command already run, skipping: %s" })
  ELSE IF last.op = "post_hook" THEN Registered
  ELSE LoggedCommands({ "Running deploy-hook command: %s",
                        "Dry run: skipping deploy hook command: %s" })

\* xs is in strictly ascending order.
StrictlyAscending(xs) == \A i \in 1..(Len(xs) - 1) : StrLess(xs[i], xs[i + 1])

\* C14: list_hooks returns the entries of the directory that are executable,
\* each joined with the path of the directory, in strictly ascending order and
\* none of them twice; pre_hook, post_hook and renew_hook process the hooks of
\* their directory in that order, before the configured hook.
C14_ListHooksSortedExecutables ==
  /\ (last.op = "list_hooks" /\ ~ MissingListed) =>
       /\ last.raised = NoError
       /\ Range(last.returned) = Executables(ListedDir)
       /\ StrictlyAscending(last.returned)
       /\ Distinct(last.returned)
       /\ \A i \in DOMAIN last.returned :
            \E f \in Range(fs.listdir[ListedDir]) :
              last.returned[i] = ListedDir \o << "/" >> \o f
  /\ (last.op \in { "pre_hook", "post_hook", "renew_hook" }
        /\ ListedDir # << >> /\ ~ MissingListed) =>
       LET d == Ascending(Executables(ListedDir))
       IN  /\ Len(Processed) >= Len(d)
           /\ SubSeq(Processed, 1, Len(d)) = d

\* list_hooks has been called on a directory whose executables os.listdir
\* does not return in ascending order, next to entries that are not
\* executable.
C14_Witness ==
  /\ last.op = "list_hooks"
  /\ Len(last.returned) = 3
  /\ Len(fs.listdir[ListedDir]) = 5
  /\ ~ StrictlyAscending(fs.listdir[ListedDir])

\* C15: pre_hook processes the hooks of the pre-hook directory only with the
\* verb renew and directory hooks on, in ascending order, and the configured
\* pre-hook after them; so a configured pre-hook that is the path of a
\* directory hook is the request that is skipped, and the command runs, once,
\* as the directory hook.
C15_DirectoryPreHooksFirst ==
  (last.op = "pre_hook" /\ last.raised = NoError) =>
    LET d == IF last.config.verb = "renew"
               THEN DirectoryHooks(last.config, last.config.renewal_pre_hooks_dir)
               ELSE << >>
        cmd == last.config.pre_hook
    IN  /\ Processed = d \o Configured(cmd)
        /\ (cmd # << >> /\ cmd \in Range(d)) =>
             /\ log[Len(log)] = Entry("info", "Pre-hook command already run, skipping: %s",
                                      << cmd >>)
             /\ cmd \notin last.already0 =>
                  /\ Cardinality({ i \in DOMAIN Ran : Ran[i] = cmd }) = 1
                  /\ \E i \in 1..(Len(log) - 1) :
                       log[i] = Entry("info", "Running pre-hook command: %s", << cmd >>)

\* The configured pre-hook is the first of the two directory hooks, and
\* neither was run before.
C15_Witness ==
  /\ last.op = "pre_hook"
  /\ last.raised = NoError
  /\ last.config.directory_hooks
  /\ last.config.pre_hook \in Executables(last.config.renewal_pre_hooks_dir)
  /\ last.already0 = {}
  /\ Len(Ran) = 2
  /\ Len(Processed) = 3

\* The operations that run deploy-hooks.
DeployOps == { "_run_deploy_hook", "deploy_hook", "renew_hook" }

\* C16: whatever deploy passes came before, for other certificates, every
\* subprocess a pass without dry run starts finds in its environment
\* RENEWED_DOMAINS, the domains of this pass with one space between them, and
\* RENEWED_LINEAGE, the lineage path of this pass.
C16_EnvironmentOfThisPass ==
  (last.op \in DeployOps /\ ~ last.dry_run) =>
    \A i \in DOMAIN calls :
      /\ { "RENEWED_DOMAINS", "RENEWED_LINEAGE" } \subseteq DOMAIN calls[i].env
      /\ split_sep(calls[i].env.RENEWED_DOMAINS, " ") = last.renewal.domains
      /\ calls[i].env.RENEWED_LINEAGE = last.renewal.lineage_path
      /\ calls[i].env.PATH = last.environ0.PATH

\* A pass for a certificate with two domains runs several hooks after a
\* pass for another certificate has set the two variables.
C16_Witness ==
  /\ last.op = "renew_hook"
  /\ ~ last.dry_run
  /\ Len(calls) >= 2
  /\ Len(last.renewal.domains) = 2
  /\ "RENEWED_LINEAGE" \in DOMAIN last.environ0
  /\ last.environ0.RENEWED_LINEAGE # last.renewal.lineage_path
  /\ last.environ0.RENEWED_DOMAINS # calls[1].env.RENEWED_DOMAINS

\* C17: after N renew_hook passes of one configuration, without dry run,
\* every hook of the deploy-hook directory has been run N times and a
\* configured renew-hook that is none of them has been run N times, nothing
\* else has been run, and pre_hook.already and post_hook.eventually, which
\* may hold the same commands, are as they were.
C17_DeployHooksRunEveryPass ==
  (last.op = "renew_hook" /\ last.raised = NoError) =>
    LET d   == DirectoryHooks(last.config, last.config.renewal_deploy_hooks_dir)
        cmd == last.config.renew_hook
    IN  /\ \A h \in Range(d) : CopiesIn(h, nrun.deploy) = nops
        /\ (cmd # << >> /\ cmd \notin Range(d)) => CopiesIn(cmd, nrun.deploy) = nops
        /\ BagToSet(nrun.deploy) = Range(d) \cup Range(Configured(cmd))
        /\ already = last.already0
        /\ eventually = last.eventually0
        /\ nrun.pre = SetToBag(already)
        /\ nrun.post = EmptyBag

\* Three passes, the third for another certificate than the second, have
\* each run the two directory hooks and the configured hook, in a process
\* that has run the same commands as pre-hooks and registered them as
\* post-hooks.
C17_Witness ==
  /\ last.op = "renew_hook"
  /\ nops = 3
  /\ last.config.directory_hooks
  /\ CopiesIn(path_join(DeployHooksDir, A_sh), nrun.deploy) = 3
  /\ CopiesIn(path_join(DeployHooksDir, B_sh), nrun.deploy) = 3
  /\ CopiesIn(Echo, nrun.deploy) = 3
  /\ Echo \in already
  /\ Echo \in Range(eventually)
  /\ last.environ0.RENEWED_LINEAGE # last.renewal.lineage_path

\* The number of times x occurs in xs.
Count(xs, x) == Cardinality({ i \in DOMAIN xs : xs[i] = x })

\* C18: as long as no call has begun while another was in progress, no
\* command has been run twice as a pre-hook and post_hook.eventually holds no
\* command twice; with concurrent callers a command is run, and registered,
\* at most once by each thread, and can be run twice and registered twice.
C18_RunOnceOnlyWithoutConcurrency ==
  /\ ~ threads.overlapped =>
       /\ \A c \in BagToSet(nrun.pre) : CopiesIn(c, nrun.pre) = 1
       /\ Distinct(eventually)
  /\ \A c \in BagToSet(nrun.pre) : CopiesIn(c, nrun.pre) <= NThreads
  /\ \A c \in Range(eventually) : Count(eventually, c) <= NThreads

\* Two threads have interleaved in _run_pre_hook_if_necessary and in
\* _run_eventually: a command has been run twice as a pre-hook, and a command
\* is twice in post_hook.eventually.
C18_Witness ==
  /\ threads.overlapped
  /\ \E c \in ThreadCmds : CopiesIn(c, nrun.pre) = 2 /\ c \in already
  /\ \E c \in ThreadCmds : Count(eventually, c) = 2

\* C19: pre_hook.already only grows, and it holds the commands that were
\* run as pre-hooks, those whose subprocess failed included, and no other; so
\* a command that was run is not run again, and a later request for it, in the
\* same operation or in a later one, is skipped.
C19_FailedPreHookIsRecorded ==
  /\ last.already0 \subseteq already
  /\ already = BagToSet(nrun.pre)
  /\ \A c \in already : CopiesIn(c, nrun.pre) = 1
  /\ last.op \in { "pre_hook", "_run_pre_hook_if_necessary" } =>
       /\ already = last.already0 \cup Range(Ran)
       /\ \A i \in DOMAIN calls :
            /\ calls[i].cmd \notin last.already0
            /\ Failed(last.outs[i]) => calls[i].cmd \in already

\* A directory pre-hook has failed, with a non-zero status and output on
\* stderr, and the configured pre-hook, which is the same command, has then
\* been skipped.
C19_Witness ==
  /\ last.op = "pre_hook"
  /\ calls # << >>
  /\ calls[1].cmd = last.config.pre_hook
  /\ last.outs[1].returncode # 0 /\ last.outs[1].err # << >>
  /\ log[Len(log)] = Entry("info", "Pre-hook command already run, skipping: %s",
                            << last.config.pre_hook >>)
  /\ last.config.pre_hook \in already

\* C20: a deploy_hook or renew_hook pass in a dry run starts no subprocess
\* and leaves os.environ (RENEWED_DOMAINS and RENEWED_LINEAGE included),
\* pre_hook.already and post_hook.eventually as they were; renew_hook still
\* records every directory hook as executed, so a configured renew-hook that
\* is the path of a directory hook gets no warning of its own and is logged as
\* already run.
C20_DryRunChangesNothingButLog ==
  (last.dry_run /\ last.op \in { "deploy_hook", "renew_hook" }) =>
    /\ calls = << >>
    /\ environ = last.environ0
    /\ already = last.already0
    /\ eventually = last.eventually0
    /\ Registered = << >>
    /\ (last.op = "renew_hook" /\ last.raised = NoError) =>
         LET d   == DirectoryHooks(last.config, last.config.renewal_deploy_hooks_dir)
             cmd == last.config.renew_hook
         IN  /\ last.executed_dir_hooks = Range(d)
             /\ (cmd # << >> /\ cmd \in Range(d)) =>
                  /\ DryRunWarned = d
                  /\ log[Len(log)] =
                       Entry("info", "Skipping deploy-hook '%s' as it was already run.",
                             << cmd >>)

\* After a pass for another certificate has run a hook, a dry-run pass whose
\* configured renew-hook is one of the two directory hooks logs it as already
\* run, and the two variables still name the other certificate.
C20_Witness ==
  /\ last.op = "renew_hook"
  /\ last.dry_run
  /\ last.config.renew_hook \in last.executed_dir_hooks
  /\ Len(DryRunWarned) = 2
  /\ calls = << >>
  /\ "RENEWED_LINEAGE" \in DOMAIN environ
  /\ environ.RENEWED_LINEAGE # last.renewal.lineage_path
  /\ log[Len(log)].text = "Skipping deploy-hook '%s' as it was already run."

====
